---- MODULE Spec2Model ----
(***************************************************************************)
(* A model of the monkey-ts interpreter pipeline: source text -> tokens -> *)
(* AST -> runtime value.                                                   *)
(*                                                                         *)
(* The tree-walking Evaluator (src/src/evaluator/evaluator.ts) is          *)
(* translated function by function.  Runtime objects carry the address at  *)
(* which they were allocated, so that JavaScript's identity comparison     *)
(* (the `switch (operand)` of the bang operator) is a comparison of        *)
(* addresses.  JavaScript numbers are IEEE-754 doubles: every arithmetic   *)
(* result is rounded to the nearest double, ties to even, with -0,         *)
(* +/-Infinity, NaN and the subnormal numbers.                             *)
(*                                                                         *)
(* The Lexer, the Parser and the AST classes are exercised by the tests in *)
(* the same file but their code is not part of it; they are modelled from  *)
(* the specification's sections 3, 4.1 and 4.2.                            *)
(***************************************************************************)
EXTENDS Integers, Sequences, FiniteSets, TLC

\* Integer literals of the evaluator's inputs are 0..MaxInt.
MaxInt == 2
\* Programs of the evaluator's inputs hold at most MaxStatements statements.
MaxStatements == 3
\* Generated parser inputs are expressions of at most MaxInfix infix operators.
MaxInfix == 2
\* Generated parser inputs are token sequences of at most MaxTokens tokens.
MaxTokens == 3

VARIABLES
    program,   \* the Program node handed to evaluate
    pc,        \* position of the evaluate call: ready, loop, returned, thrown
    i,         \* index of the next statement of the for-of loop (1-based)
    result,    \* the local `result` of evaluateStatements
    visited,   \* indexes of the statements handed to evaluate so far, in order
    heap,      \* number of runtime objects allocated so far
    ret        \* what the evaluate call returned (when pc = "returned")

VARIABLES
    parser,     \* the Parser: its lexer's input and position, curToken,
                \* peekToken and errors
    statements, \* the statements of the Program that parseProgram is building
    ppc         \* position of the parseProgram call: parsing, done

evars == <<program, pc, i, result, visited, heap, ret>>
pvars == <<parser, statements, ppc>>
vars == <<program, pc, i, result, visited, heap, ret, parser, statements, ppc>>

-----------------------------------------------------------------------------
(* JavaScript primitive values, each tagged with its type in field k.       *)

JsBoolean(b) == [k |-> "boolean", b |-> b]
JsString(str) == [k |-> "string", str |-> str]

-----------------------------------------------------------------------------
(* Natural numbers of any size (a double's 53-bit significand exceeds the   *)
(* range of Int here): sequences of limbs, each in 0..Base-1, the least     *)
(* significant first and the last one not 0; <<>> is zero.                  *)

\* Bits of a limb.
LimbBits == 12

\* 2^n, for n in 0..LimbBits
Pow2(n) == <<1, 2, 4, 8, 16, 32, 64, 128, 256, 512, 1024, 2048, 4096>>[n + 1]

Base == Pow2(LimbBits)

Zeros(n) == [j \in 1..n |-> 0]

\* the j-th limb of a, 0 beyond its last
Limb(a, j) == IF j \in 1..Len(a) THEN a[j] ELSE 0

\* a without its most significant zeros
Normal(a) ==
    IF \A j \in 1..Len(a) : a[j] = 0 THEN <<>>
    ELSE SubSeq(a, 1, CHOOSE j \in 1..Len(a) :
                          a[j] # 0 /\ \A l \in (j + 1)..Len(a) : a[l] = 0)

\* the limbs of the natural number n
RECURSIVE Limbs(_)
Limbs(n) == IF n = 0 THEN <<>> ELSE <<n % Base>> \o Limbs(n \div Base)

\* the limbs of c[j] + c[j+1] * Base + ... + carry, for naturals c[j]
RECURSIVE Carry(_, _, _)
Carry(c, j, carry) ==
    IF j > Len(c) THEN Limbs(carry)
    ELSE <<(c[j] + carry) % Base>> \o Carry(c, j + 1, (c[j] + carry) \div Base)

\* the limbs of c[j] + c[j+1] * Base + ... - borrow, for c[j] in
\* -(Base-1)..(Base-1) and a result that is not negative
RECURSIVE Borrow(_, _, _)
Borrow(c, j, borrow) ==
    IF j > Len(c) THEN <<>>
    ELSE <<(c[j] - borrow + Base) % Base>>
             \o Borrow(c, j + 1, IF c[j] - borrow < 0 THEN 1 ELSE 0)

\* a + b
AddNat(a, b) ==
    LET n == IF Len(a) < Len(b) THEN Len(b) ELSE Len(a)
    IN  Normal(Carry([j \in 1..n |-> Limb(a, j) + Limb(b, j)], 1, 0))

\* a - b, for a >= b
SubNat(a, b) ==
    Normal(Borrow([j \in 1..Len(a) |-> a[j] - Limb(b, j)], 1, 0))

\* a[j] * b[k+1-j] + a[j+1] * b[k-j] + ...: from j on, the products of weight
\* Base^(k-1) in a * b
RECURSIVE Column(_, _, _, _)
Column(a, b, k, j) ==
    IF j > Len(a) \/ j > k THEN 0
    ELSE a[j] * Limb(b, k + 1 - j) + Column(a, b, k, j + 1)

\* a * b
MulNat(a, b) ==
    Normal(Carry([k \in 1..(Len(a) + Len(b) - 1) |-> Column(a, b, k, 1)], 1, 0))

\* -1, 0 or 1 as a < b, a = b or a > b, for a and b of equal length, from
\* limb j down
RECURSIVE CmpFrom(_, _, _)
CmpFrom(a, b, j) ==
    IF j = 0 THEN 0
    ELSE IF a[j] < b[j] THEN -1
    ELSE IF a[j] > b[j] THEN 1
    ELSE CmpFrom(a, b, j - 1)

\* -1, 0 or 1 as a < b, a = b or a > b
CmpNat(a, b) ==
    IF Len(a) < Len(b) THEN -1
    ELSE IF Len(a) > Len(b) THEN 1
    ELSE CmpFrom(a, b, Len(a))

\* the number of bits of the limb n
BitLength(n) == CHOOSE l \in 0..LimbBits : n < Pow2(l) /\ (l = 0 \/ Pow2(l - 1) <= n)

\* the number of bits of a
BitLen(a) ==
    IF a = <<>> THEN 0 ELSE LimbBits * (Len(a) - 1) + BitLength(a[Len(a)])

\* bit n of a, bit 0 being the least significant
Bit(a, n) == (Limb(a, (n \div LimbBits) + 1) \div Pow2(n % LimbBits)) % 2

\* a * 2^k
ShiftLeft(a, k) ==
    Zeros(k \div LimbBits) \o MulNat(a, <<Pow2(k % LimbBits)>>)

\* a \div 2^k
ShiftRight(a, k) ==
    LET q == k \div LimbBits
        r == k % LimbBits
    IN  Normal([j \in 1..(Len(a) - q) |->
                   (a[j + q] \div Pow2(r))
                       + (Limb(a, j + q + 1) % Pow2(r)) * Pow2(LimbBits - r)])

\* a % 2^k # 0
LowBits(a, k) ==
    \/ \E j \in 1..(k \div LimbBits) : Limb(a, j) # 0
    \/ Limb(a, (k \div LimbBits) + 1) % Pow2(k % LimbBits) # 0

\* the number of zero bits that end the limb n # 0
ZeroBits(n) ==
    CHOOSE l \in 0..(LimbBits - 1) : n % Pow2(l) = 0 /\ n % Pow2(l + 1) # 0

\* the number of zero bits that end a # 0
TrailingZeros(a) ==
    LET j == CHOOSE j \in 1..Len(a) : a[j] # 0 /\ \A l \in 1..(j - 1) : a[l] = 0
    IN  LimbBits * (j - 1) + ZeroBits(a[j])

\* What one more bit brings to a long division by b, whose quotient and
\* remainder so far are q and r.
DivStep(q, r, bit, b) ==
    LET r2 == AddNat(ShiftLeft(r, 1), Limbs(bit))
    IN  IF CmpNat(r2, b) >= 0
        THEN [q |-> AddNat(ShiftLeft(q, 1), <<1>>), r |-> SubNat(r2, b)]
        ELSE [q |-> ShiftLeft(q, 1), r |-> r2]

\* The long division by b # 0, whose quotient and remainder so far are q
\* and r, carried on over bits hi-1 down to lo of a: the upper half of the
\* bits, then the lower half (nothing is left to do there once the remainder
\* is zero and so are the bits).
RECURSIVE DivBits(_, _, _, _, _, _)
DivBits(a, b, lo, hi, q, r) ==
    IF hi <= lo THEN [q |-> q, r |-> r]
    ELSE IF hi = lo + 1 THEN DivStep(q, r, Bit(a, lo), b)
    ELSE LET mid == (lo + hi) \div 2
             p == DivBits(a, b, mid, hi, q, r)
         IN  IF p.r = <<>> /\ \A n \in lo..(mid - 1) : Bit(a, n) = 0
             THEN [q |-> ShiftLeft(p.q, mid - lo), r |-> <<>>]
             ELSE DivBits(a, b, lo, mid, p.q, p.r)

\* quotient q and remainder r of a divided by b, for b # 0
DivNat(a, b) == DivBits(a, b, 0, BitLen(a), <<>>, <<>>)

-----------------------------------------------------------------------------
(* JavaScript numbers: IEEE-754 doubles.  A finite number is                *)
(* s * m * 2^e, with s the sign (1 or -1), m an odd natural number (limbs)  *)
(* and e an integer; zero is m = <<>>, e = 0, and keeps its sign.            *)

\* Bits of a double's significand.
Precision == 53
\* Exponent of the leading bit of the largest double.
MaxExponent == 1023
\* Exponent of the last bit of a subnormal double.
MinExponent == -1074

Zero(s) == [k |-> "fin", s |-> s, m |-> <<>>, e |-> 0]

\* s * m * 2^e in the form above, for any natural m
Fin(s, m, e) ==
    IF m = <<>> THEN Zero(s)
    ELSE [k |-> "fin", s |-> s, m |-> ShiftRight(m, TrailingZeros(m)),
          e |-> e + TrailingZeros(m)]

Infinity(s) == [k |-> "inf", s |-> s, m |-> <<>>, e |-> 0]

NaN == [k |-> "nan", s |-> 1, m |-> <<>>, e |-> 0]

\* The double of the integer z.
FromInt(z) == IF z < 0 THEN Fin(-1, Limbs(-z), 0) ELSE Fin(1, Limbs(z), 0)

IsZero(x) == x.k = "fin" /\ x.m = <<>>

\* Number.isInteger: a finite number with no fractional part.
IsIntegral(x) == x.k = "fin" /\ x.e >= 0

\* The double nearest to s * (m + f) * 2^e, ties to even, for a natural
\* m # 0 and f = 0, or, when sticky, some f strictly between 0 and 1.  With
\* sticky, m has more than Precision bits.
Round(s, m, e, sticky) ==
    LET top == e + BitLen(m) - 1    \* exponent of the leading bit
        low == IF top - (Precision - 1) < MinExponent THEN MinExponent
               ELSE top - (Precision - 1)    \* exponent of the last bit kept
        drop == low - e
    IN  IF drop <= 0
        THEN IF top > MaxExponent THEN Infinity(s) ELSE Fin(s, m, e)
        ELSE IF drop > BitLen(m) THEN Zero(s)
        ELSE LET kept == ShiftRight(m, drop)
                 half == Bit(m, drop - 1) = 1
                 more == sticky \/ LowBits(m, drop - 1)
                 r == IF half /\ (more \/ Bit(m, drop) = 1)
                      THEN AddNat(kept, <<1>>)
                      ELSE kept
             IN  IF r = <<>> THEN Zero(s)
                 ELSE IF low + BitLen(r) - 1 > MaxExponent THEN Infinity(s)
                 ELSE Fin(s, r, low)

\* -1, 0 or 1 as |x| < |y|, |x| = |y| or |x| > |y|, for finite x and y
CmpMagnitude(x, y) ==
    IF IsZero(x) /\ IsZero(y) THEN 0
    ELSE IF IsZero(x) THEN -1
    ELSE IF IsZero(y) THEN 1
    ELSE IF x.e + BitLen(x.m) < y.e + BitLen(y.m) THEN -1
    ELSE IF x.e + BitLen(x.m) > y.e + BitLen(y.m) THEN 1
    ELSE LET e == IF x.e < y.e THEN x.e ELSE y.e
         IN  CmpNat(ShiftLeft(x.m, x.e - e), ShiftLeft(y.m, y.e - e))

\* -1, 0 or 1 as x < y, x = y or x > y, for finite x and y
Cmp(x, y) ==
    IF IsZero(x) /\ IsZero(y) THEN 0
    ELSE IF IsZero(x) THEN -y.s
    ELSE IF IsZero(y) THEN x.s
    ELSE IF x.s # y.s THEN x.s
    ELSE x.s * CmpMagnitude(x, y)

\* unary minus: -x
JsNeg(x) == IF x.k = "nan" THEN NaN ELSE [x EXCEPT !.s = -x.s]

\* x + y for finite x and y, neither zero.  An operand whose leading bit is
\* more than Precision + 2 places below the other's does not change it.
AddFinite(x, y) ==
    IF (x.e + BitLen(x.m)) - (y.e + BitLen(y.m)) > Precision + 2 THEN x
    ELSE IF (y.e + BitLen(y.m)) - (x.e + BitLen(x.m)) > Precision + 2 THEN y
    ELSE LET e == IF x.e < y.e THEN x.e ELSE y.e
             a == ShiftLeft(x.m, x.e - e)
             b == ShiftLeft(y.m, y.e - e)
         IN  IF x.s = y.s THEN Round(x.s, AddNat(a, b), e, FALSE)
             ELSE IF CmpNat(a, b) = 0 THEN Zero(1)
             ELSE IF CmpNat(a, b) > 0 THEN Round(x.s, SubNat(a, b), e, FALSE)
             ELSE Round(y.s, SubNat(b, a), e, FALSE)

\* x + y
JsAdd(x, y) ==
    IF x.k = "nan" \/ y.k = "nan" THEN NaN
    ELSE IF x.k = "inf" /\ y.k = "inf"
         THEN IF x.s = y.s THEN x ELSE NaN
    ELSE IF x.k = "inf" THEN x
    ELSE IF y.k = "inf" THEN y
    ELSE IF IsZero(x) /\ IsZero(y)
         THEN Zero(IF x.s = -1 /\ y.s = -1 THEN -1 ELSE 1)
    ELSE IF IsZero(x) THEN y
    ELSE IF IsZero(y) THEN x
    ELSE AddFinite(x, y)

\* x - y
JsSub(x, y) == JsAdd(x, JsNeg(y))

\* x * y
JsMul(x, y) ==
    IF x.k = "nan" \/ y.k = "nan" THEN NaN
    ELSE IF (x.k = "inf" /\ IsZero(y)) \/ (IsZero(x) /\ y.k = "inf") THEN NaN
    ELSE IF x.k = "inf" \/ y.k = "inf" THEN Infinity(x.s * y.s)
    ELSE IF IsZero(x) \/ IsZero(y) THEN Zero(x.s * y.s)
    ELSE Round(x.s * y.s, MulNat(x.m, y.m), x.e + y.e, FALSE)

\* x / y for finite x and y, neither zero: the quotient is taken to
\* Precision + 2 bits or more, and the remainder tells whether it is exact.
DivFinite(x, y) ==
    LET shift == IF Precision + 2 + BitLen(y.m) - BitLen(x.m) < 0 THEN 0
                 ELSE Precision + 2 + BitLen(y.m) - BitLen(x.m)
        d == DivNat(ShiftLeft(x.m, shift), y.m)
    IN  Round(x.s * y.s, d.q, x.e - y.e - shift, d.r # <<>>)

\* x / y
JsDiv(x, y) ==
    IF x.k = "nan" \/ y.k = "nan" THEN NaN
    ELSE IF x.k = "inf" /\ y.k = "inf" THEN NaN
    ELSE IF IsZero(x) /\ IsZero(y) THEN NaN
    ELSE IF x.k = "inf" THEN Infinity(x.s * y.s)
    ELSE IF y.k = "inf" THEN Zero(x.s * y.s)
    ELSE IF IsZero(y) THEN Infinity(x.s * y.s)
    ELSE IF IsZero(x) THEN Zero(x.s * y.s)
    ELSE DivFinite(x, y)

\* x < y
JsLt(x, y) ==
    IF x.k = "nan" \/ y.k = "nan" THEN JsBoolean(FALSE)
    ELSE IF x.k = "inf" THEN JsBoolean(x.s = -1 /\ ~(y.k = "inf" /\ y.s = -1))
    ELSE IF y.k = "inf" THEN JsBoolean(y.s = 1)
    ELSE JsBoolean(Cmp(x, y) < 0)

\* x > y
JsGt(x, y) == JsLt(y, x)

\* x == y on two numbers
JsEq(x, y) ==
    IF x.k = "nan" \/ y.k = "nan" THEN JsBoolean(FALSE)
    ELSE IF x.k = "inf" \/ y.k = "inf" THEN JsBoolean(x.k = y.k /\ x.s = y.s)
    ELSE JsBoolean(Cmp(x, y) = 0)

\* x != y on two numbers
JsNeq(x, y) == JsBoolean(~JsEq(x, y).b)

-----------------------------------------------------------------------------
(* Runtime values: EvalObject | null | undefined, and the TypeError that a  *)
(* property read on undefined raises.                                       *)

JsNull == [tag |-> "null"]
JsUndefined == [tag |-> "undefined"]
TypeError == [tag |-> "TypeError"]

Integer(value, addr) ==
    [tag |-> "object", type |-> "INTEGER", value |-> value, addr |-> addr]
BooleanLiteral(value, addr) ==
    [tag |-> "object", type |-> "BOOLEAN", value |-> value, addr |-> addr]
Null(addr) ==
    [tag |-> "object", type |-> "NULL", addr |-> addr]

\* The three module-level objects NULL, TRUE and FALSE, allocated when the
\* module is loaded (TRUE and FALSE are reserved words here, hence the
\* trailing underscore).
NULL == Null(1)
TRUE_ == BooleanLiteral(JsBoolean(TRUE), 2)
FALSE_ == BooleanLiteral(JsBoolean(FALSE), 3)

\* Objects allocated before the first evaluate call.
InitialHeap == 3

\* A value with which an evaluation ended, and the heap size after it.
Ret(v, h) == [val |-> v, heap |-> h]

\* JavaScript truthiness of EvalObject | null | undefined.
Truthy(v) == v.tag = "object"

\* a === b on two objects
Same(a, b) == a.addr = b.addr

-----------------------------------------------------------------------------
(* Tokens and AST nodes (packages 'token' and 'ast').  A token's literal is *)
(* the sequence of its characters; every node carries its originating token.*)

Token(type, literal) == [type |-> type, literal |-> literal]

\* An absent node: a child the parser left out (undefined).
Absent == [kind |-> "undefined"]

IdentifierNode(token, value) ==
    [kind |-> "Identifier", token |-> token, value |-> value]
IntegerLiteralNode(token, value) ==
    [kind |-> "IntegerLiteral", token |-> token, value |-> value]
BooleanNode(token, value) ==
    [kind |-> "Boolean", token |-> token, value |-> value]
PrefixNode(token, operator, right) ==
    [kind |-> "Prefix", token |-> token, operator |-> operator, right |-> right]
InfixNode(token, operator, left, right) ==
    [kind |-> "Infix", token |-> token, operator |-> operator,
     left |-> left, right |-> right]
ExpressionStatementNode(token, expression) ==
    [kind |-> "Expression", token |-> token, expression |-> expression]
LetStatementNode(token, name, value) ==
    [kind |-> "Let", token |-> token, name |-> name, value |-> value]
ReturnStatementNode(token, returnValue) ==
    [kind |-> "Return", token |-> token, returnValue |-> returnValue]
ProgramNode(stmts) == [kind |-> "Program", statements |-> stmts]

-----------------------------------------------------------------------------
(* The Evaluator.                                                           *)

toBooleanLiteral(value) == IF value.b THEN TRUE_ ELSE FALSE_

evaluateBangOperatorExpression(operand, h) ==
    IF Same(operand, TRUE_) THEN Ret(FALSE_, h)
    ELSE IF Same(operand, FALSE_) THEN Ret(TRUE_, h)
    ELSE IF Same(operand, NULL) THEN Ret(TRUE_, h)
    ELSE Ret(FALSE_, h)

\* A minus operator that reports a non-Integer operand as the other operators
\* report a type mismatch, with the NULL singleton.
evaluateMinusOperatorExpressionNULL(operand, h) ==
    IF operand.type # "INTEGER" THEN Ret(NULL, h)
    ELSE Ret(Integer(JsNeg(operand.value), h + 1), h + 1)

evaluateMinusOperatorExpression(operand, h) ==
    IF operand.type # "INTEGER" THEN Ret(JsNull, h)
    ELSE Ret(Integer(JsNeg(operand.value), h + 1), h + 1)

evaluatePrefixExpression(operator, operand, h) ==
    CASE operator = "!" -> evaluateBangOperatorExpression(operand, h)
      [] operator = "-" -> evaluateMinusOperatorExpression(operand, h)
      [] OTHER -> Ret(NULL, h)

evaluateIntegerInfixExpression(operator, left, right, h) ==
    LET leftValue == left.value
        rightValue == right.value
    IN  CASE operator = "+" ->
                Ret(Integer(JsAdd(leftValue, rightValue), h + 1), h + 1)
          [] operator = "-" ->
                Ret(Integer(JsSub(leftValue, rightValue), h + 1), h + 1)
          [] operator = "*" ->
                Ret(Integer(JsMul(leftValue, rightValue), h + 1), h + 1)
          [] operator = "/" ->
                Ret(Integer(JsDiv(leftValue, rightValue), h + 1), h + 1)
          [] operator = "<" ->
                Ret(BooleanLiteral(JsLt(leftValue, rightValue), h + 1), h + 1)
          [] operator = ">" ->
                Ret(BooleanLiteral(JsGt(leftValue, rightValue), h + 1), h + 1)
          [] operator = "==" ->
                Ret(BooleanLiteral(JsEq(leftValue, rightValue), h + 1), h + 1)
          [] operator = "!=" ->
                Ret(BooleanLiteral(JsNeq(leftValue, rightValue), h + 1), h + 1)
          [] OTHER -> Ret(Null(h + 1), h + 1)

evaluateBooleanInfixExpression(operator, left, right, h) ==
    LET leftValue == left.value
        rightValue == right.value
    IN  CASE operator = "==" ->
                Ret(toBooleanLiteral(JsBoolean(leftValue = rightValue)), h)
          [] operator = "!=" ->
                Ret(toBooleanLiteral(JsBoolean(leftValue # rightValue)), h)
          [] OTHER -> Ret(Null(h + 1), h + 1)

evaluateInfixExpression(operator, left, right, h) ==
    IF left.type = "INTEGER" /\ right.type = "INTEGER"
    THEN evaluateIntegerInfixExpression(operator, left, right, h)
    ELSE IF left.type = "BOOLEAN" /\ right.type = "BOOLEAN"
    THEN evaluateBooleanInfixExpression(operator, left, right, h)
    ELSE Ret(Null(h + 1), h + 1)

\* case ExpressionKind.Prefix, once the operand is evaluated:
\* evaluatedRightExpressions && this.evaluatePrefixExpression(...)
evaluatePrefixNode(operator, evaluatedRightExpressions) ==
    IF Truthy(evaluatedRightExpressions.val)
    THEN evaluatePrefixExpression(operator,
                                  evaluatedRightExpressions.val,
                                  evaluatedRightExpressions.heap)
    ELSE evaluatedRightExpressions

\* case ExpressionKind.Infix, once both operands are evaluated: the operator
\* is applied if both are truthy; otherwise `break` leaves the switch and the
\* function ends without a return statement (undefined).
evaluateInfixNode(operator, evaluatedLeftExpression, evaluatedRightExpression) ==
    IF Truthy(evaluatedLeftExpression.val) /\ Truthy(evaluatedRightExpression.val)
    THEN evaluateInfixExpression(operator,
                                 evaluatedLeftExpression.val,
                                 evaluatedRightExpression.val,
                                 evaluatedRightExpression.heap)
    ELSE Ret(JsUndefined, evaluatedRightExpression.heap)

RECURSIVE evaluate(_, _)
RECURSIVE evaluateStatements(_, _, _, _)

\* The for-of loop of evaluateStatements from statement k on, `res` being the
\* local `result`; a TypeError raised by a statement leaves the loop.
evaluateStatements(stmts, k, res, h) ==
    IF k > Len(stmts) THEN Ret(res, h)
    ELSE LET r == evaluate(stmts[k], h)
         IN  IF r.val = TypeError THEN r
             ELSE evaluateStatements(stmts, k + 1, r.val, r.heap)

\* evaluate(node): reading node.kind of an absent node raises a TypeError,
\* which no caller catches.
evaluate(node, h) ==
    CASE node.kind = "undefined" -> Ret(TypeError, h)
      [] node.kind = "Program" ->
            evaluateStatements(node.statements, 1, JsUndefined, h)
      [] node.kind = "Expression" -> evaluate(node.expression, h)
      [] node.kind = "IntegerLiteral" ->
            Ret(Integer(node.value, h + 1), h + 1)
      [] node.kind = "Boolean" -> Ret(toBooleanLiteral(node.value), h)
      [] node.kind = "Prefix" ->
            LET evaluatedRightExpressions == evaluate(node.right, h)
            IN  IF evaluatedRightExpressions.val = TypeError
                THEN evaluatedRightExpressions
                ELSE evaluatePrefixNode(node.operator, evaluatedRightExpressions)
      [] node.kind = "Infix" ->
            LET evaluatedLeftExpression == evaluate(node.left, h)
            IN  IF evaluatedLeftExpression.val = TypeError
                THEN evaluatedLeftExpression
                ELSE LET evaluatedRightExpression ==
                             evaluate(node.right, evaluatedLeftExpression.heap)
                     IN  IF evaluatedRightExpression.val = TypeError
                         THEN evaluatedRightExpression
                         ELSE evaluateInfixNode(node.operator,
                                                evaluatedLeftExpression,
                                                evaluatedRightExpression)
      [] OTHER -> Ret(JsNull, h)

-----------------------------------------------------------------------------
(* The Lexer (specification, section 4.1).                                  *)

Letter ==
    {"a", "b", "c", "d", "e", "f", "g", "h", "i", "j", "k", "l", "m", "n",
     "o", "p", "q", "r", "s", "t", "u", "v", "w", "x", "y", "z",
     "A", "B", "C", "D", "E", "F", "G", "H", "I", "J", "K", "L", "M", "N",
     "O", "P", "Q", "R", "S", "T", "U", "V", "W", "X", "Y", "Z",
     "_"}

Digit == {"0", "1", "2", "3", "4", "5", "6", "7", "8", "9"}

Whitespace == {" ", "\t", "\n", "\r"}

\* Characters that are a token on their own; the token's type is the character.
SingleCharTokens == {"+", "-", "*", "/", "<", ">", ",", ";", "(", ")", "{", "}"}

\* The string made of a sequence of characters.
RECURSIVE Join(_)
Join(chars) == IF chars = <<>> THEN "" ELSE Head(chars) \o Join(Tail(chars))

\* The position after the maximal run of characters of `class` from pos on.
RECURSIVE readWhile(_, _, _)
readWhile(input, pos, class) ==
    IF pos <= Len(input) /\ input[pos] \in class
    THEN readWhile(input, pos + 1, class)
    ELSE pos

\* The keyword table: the token type of a word.
lookupIdent(word) ==
    CASE word = "let" -> "LET"
      [] word = "return" -> "RETURN"
      [] word = "true" -> "TRUE"
      [] word = "false" -> "FALSE"
      [] OTHER -> "IDENT"

\* One call of the lexer at `position`: the token read and the position
\* after it.  At the end of the input every call answers EOF.
lexerNextToken(input, position) ==
    LET pos == readWhile(input, position, Whitespace)
    IN  IF pos > Len(input)
        THEN [token |-> Token("EOF", <<>>), position |-> pos]
        ELSE LET ch == input[pos]
                 peekChar == IF pos + 1 <= Len(input) THEN input[pos + 1] ELSE ""
             IN  CASE ch = "=" ->
                        IF peekChar = "="
                        THEN [token |-> Token("==", <<"=", "=">>), position |-> pos + 2]
                        ELSE [token |-> Token("=", <<"=">>), position |-> pos + 1]
                   [] ch = "!" ->
                        IF peekChar = "="
                        THEN [token |-> Token("!=", <<"!", "=">>), position |-> pos + 2]
                        ELSE [token |-> Token("!", <<"!">>), position |-> pos + 1]
                   [] ch \in SingleCharTokens ->
                        [token |-> Token(ch, <<ch>>), position |-> pos + 1]
                   [] ch \in Letter ->
                        LET end == readWhile(input, pos, Letter)
                            word == SubSeq(input, pos, end - 1)
                        IN  [token |-> Token(lookupIdent(Join(word)), word),
                             position |-> end]
                   [] ch \in Digit ->
                        LET end == readWhile(input, pos, Digit)
                        IN  [token |-> Token("INT", SubSeq(input, pos, end - 1)),
                             position |-> end]
                   [] OTHER ->
                        [token |-> Token("ILLEGAL", <<ch>>), position |-> pos + 1]

\* All the tokens of an input, up to its end.
RECURSIVE Tokenize(_, _)
Tokenize(input, position) ==
    LET t == lexerNextToken(input, position)
    IN  IF t.token.type = "EOF" THEN <<>>
        ELSE <<t.token>> \o Tokenize(input, t.position)

-----------------------------------------------------------------------------
(* The Parser (specification, section 4.2).                                 *)

LOWEST == 1
EQUALS == 2
LESSGREATER == 3
SUM == 4
PRODUCT == 5
PREFIX == 6
CALL == 7

\* A precedence table that ranks + and - above * and /.
precedencesSwapped(type) ==
    CASE type \in {"==", "!="} -> EQUALS
      [] type \in {"<", ">"} -> LESSGREATER
      [] type \in {"+", "-"} -> PRODUCT
      [] type \in {"*", "/"} -> SUM
      [] OTHER -> LOWEST

\* The infix precedence of a token type.
precedences(type) ==
    CASE type \in {"==", "!="} -> EQUALS
      [] type \in {"<", ">"} -> LESSGREATER
      [] type \in {"+", "-"} -> SUM
      [] type \in {"*", "/"} -> PRODUCT
      [] OTHER -> LOWEST

\* Token types with a prefix-parse rule.
PrefixTypes == {"IDENT", "INT", "TRUE", "FALSE", "!", "-"}

\* The value of a run of decimal digits.
RECURSIVE DecimalValue(_)
DecimalValue(chars) ==
    IF chars = <<>> THEN 0
    ELSE 10 * DecimalValue(SubSeq(chars, 1, Len(chars) - 1))
            + (CHOOSE v \in 0..9 :
                  chars[Len(chars)] = <<"0", "1", "2", "3", "4", "5", "6", "7", "8", "9">>[v + 1])

\* Advance both lookahead tokens together.
nextToken(p) ==
    LET t == lexerNextToken(p.input, p.position)
    IN  [p EXCEPT !.curToken = p.peekToken,
                  !.peekToken = t.token,
                  !.position = t.position]

\* new Parser(lexer): read two tokens, so that curToken and peekToken are set.
NewParser(input) ==
    nextToken(nextToken([input |-> input, position |-> 1,
                         curToken |-> Token("EOF", <<>>),
                         peekToken |-> Token("EOF", <<>>),
                         errors |-> <<>>]))

peekError(p, type) ==
    [p EXCEPT !.errors =
        Append(@, "expected next token to be " \o type \o ", got "
                      \o p.peekToken.type \o " instead")]

\* An expectPeek that steps over the unexpected token.
expectPeekSkipping(p, type) ==
    IF p.peekToken.type = type
    THEN [ok |-> TRUE, p |-> nextToken(p)]
    ELSE [ok |-> FALSE, p |-> nextToken(peekError(p, type))]

\* Advance if the peek token is of the expected type; otherwise record an
\* error and stay.
expectPeek(p, type) ==
    IF p.peekToken.type = type
    THEN [ok |-> TRUE, p |-> nextToken(p)]
    ELSE [ok |-> FALSE, p |-> peekError(p, type)]

noPrefixParseFnError(p) ==
    [p EXCEPT !.errors =
        Append(@, "no prefix parse function for "
                      \o Join(p.curToken.literal) \o " found")]

RECURSIVE parseExpression(_, _)
RECURSIVE parsePrefix(_)
RECURSIVE parseInfixExpression(_, _)
RECURSIVE parseInfixLoop(_, _, _)

\* The prefix-parse rule of the current token: a literal, an identifier, or a
\* unary operator and its operand, parsed at precedence PREFIX.
parsePrefix(p) ==
    LET token == p.curToken
    IN  CASE token.type = "IDENT" ->
                [p |-> p,
                 expr |-> IdentifierNode(token, JsString(Join(token.literal)))]
          [] token.type = "INT" ->
                [p |-> p,
                 expr |-> IntegerLiteralNode(
                              token, FromInt(DecimalValue(token.literal)))]
          [] token.type \in {"TRUE", "FALSE"} ->
                [p |-> p,
                 expr |-> BooleanNode(token, JsBoolean(token.type = "TRUE"))]
          [] token.type \in {"!", "-"} ->
                LET r == parseExpression(nextToken(p), PREFIX)
                IN  [p |-> r.p,
                     expr |-> PrefixNode(token, Join(token.literal), r.expr)]

\* The infix-parse rule: the current token is the operator, `left` its left
\* operand; the right operand is parsed at the operator's own precedence.
parseInfixExpression(p, left) ==
    LET token == p.curToken
        precedence == precedences(token.type)
        r == parseExpression(nextToken(p), precedence)
    IN  [p |-> r.p,
         expr |-> InfixNode(token, Join(token.literal), left, r.expr)]

\* While the peek token's precedence is strictly greater than `precedence`,
\* advance and parse the infix expression.
parseInfixLoop(p, left, precedence) ==
    IF precedence < precedences(p.peekToken.type)
    THEN LET r == parseInfixExpression(nextToken(p), left)
         IN  parseInfixLoop(r.p, r.expr, precedence)
    ELSE [p |-> p, expr |-> left]

parseExpression(p, precedence) ==
    IF p.curToken.type \notin PrefixTypes
    THEN [p |-> noPrefixParseFnError(p), expr |-> Absent]
    ELSE LET l == parsePrefix(p)
         IN  parseInfixLoop(l.p, l.expr, precedence)

\* What a statement parser answers when it gives up (null).
NoStatement == [kind |-> "null"]

\* The optional semicolon that ends a statement.
skipSemicolon(p) == IF p.peekToken.type = ";" THEN nextToken(p) ELSE p

parseLetStatement(p) ==
    LET token == p.curToken
        e1 == expectPeek(p, "IDENT")
    IN  IF ~e1.ok THEN [p |-> e1.p, stmt |-> NoStatement]
        ELSE LET name == IdentifierNode(e1.p.curToken,
                                        JsString(Join(e1.p.curToken.literal)))
                 e2 == expectPeek(e1.p, "=")
             IN  IF ~e2.ok THEN [p |-> e2.p, stmt |-> NoStatement]
                 ELSE LET r == parseExpression(nextToken(e2.p), LOWEST)
                      IN  [p |-> skipSemicolon(r.p),
                           stmt |-> LetStatementNode(token, name, r.expr)]

parseReturnStatement(p) ==
    LET token == p.curToken
        r == parseExpression(nextToken(p), LOWEST)
    IN  [p |-> skipSemicolon(r.p), stmt |-> ReturnStatementNode(token, r.expr)]

parseExpressionStatement(p) ==
    LET token == p.curToken
        r == parseExpression(p, LOWEST)
    IN  [p |-> skipSemicolon(r.p), stmt |-> ExpressionStatementNode(token, r.expr)]

parseStatement(p) ==
    CASE p.curToken.type = "LET" -> parseLetStatement(p)
      [] p.curToken.type = "RETURN" -> parseReturnStatement(p)
      [] OTHER -> parseExpressionStatement(p)

\* The textual rendering of a node.
RECURSIVE string(_)
RECURSIVE stringAll(_)
stringAll(nodes) ==
    IF nodes = <<>> THEN "" ELSE string(Head(nodes)) \o stringAll(Tail(nodes))

string(node) ==
    CASE node.kind = "Program" -> stringAll(node.statements)
      [] node.kind = "Expression" -> string(node.expression)
      [] node.kind = "Let" ->
            "let " \o string(node.name) \o " = " \o string(node.value) \o ";"
      [] node.kind = "Return" -> "return " \o string(node.returnValue) \o ";"
      [] node.kind = "Identifier" -> node.value.str
      [] node.kind = "IntegerLiteral" -> Join(node.token.literal)
      [] node.kind = "Boolean" -> Join(node.token.literal)
      [] node.kind = "Prefix" ->
            "(" \o node.operator \o string(node.right) \o ")"
      [] node.kind = "Infix" ->
            "(" \o string(node.left) \o " " \o node.operator \o " "
                \o string(node.right) \o ")"
      [] OTHER -> ""

-----------------------------------------------------------------------------
(* The evaluator's inputs: Programs over expressions nested two operators   *)
(* deep (three for chains of prefix operators), with absent children where  *)
(* a parse that recorded errors left a node incomplete.                     *)

PrefixOperators == {"!", "-", "~"}
InfixOperators == {"+", "-", "*", "/", "<", ">", "==", "!=", "%"}

Digits == <<"0", "1", "2", "3", "4", "5", "6", "7", "8", "9">>

\* The decimal digits of a natural number.
RECURSIVE DecimalChars(_)
DecimalChars(n) ==
    IF n < 10 THEN <<Digits[n + 1]>>
    ELSE Append(DecimalChars(n \div 10), Digits[(n % 10) + 1])

\* The token of an operator: its type is the operator itself, ILLEGAL for a
\* character that is no operator of the language.
OperatorToken(op) ==
    CASE op = "==" -> Token("==", <<"=", "=">>)
      [] op = "!=" -> Token("!=", <<"!", "=">>)
      [] op \in {"~", "%"} -> Token("ILLEGAL", <<op>>)
      [] OTHER -> Token(op, <<op>>)

IntLit(n) == IntegerLiteralNode(Token("INT", DecimalChars(n)), FromInt(n))
Bool(b) ==
    IF b THEN BooleanNode(Token("TRUE", <<"t", "r", "u", "e">>), JsBoolean(TRUE))
    ELSE BooleanNode(Token("FALSE", <<"f", "a", "l", "s", "e">>), JsBoolean(FALSE))
Ident(c) == IdentifierNode(Token("IDENT", <<c>>), JsString(c))
Prefix(op, r) == PrefixNode(OperatorToken(op), op, r)
Infix(op, l, r) == InfixNode(OperatorToken(op), op, l, r)

\* The first token of an expression: the token of its statement.
RECURSIVE FirstToken(_)
FirstToken(e) ==
    CASE e.kind = "undefined" -> Token(";", <<";">>)
      [] e.kind = "Infix" -> FirstToken(e.left)
      [] OTHER -> e.token

ExprStmt(e) == ExpressionStatementNode(FirstToken(e), e)
LetStmt == LetStatementNode(Token("LET", <<"l", "e", "t">>), Ident("a"), IntLit(1))
ReturnStmt ==
    ReturnStatementNode(Token("RETURN", <<"r", "e", "t", "u", "r", "n">>), IntLit(1))

Leaves ==
    {IntLit(n) : n \in 0..MaxInt}
        \cup {Bool(b) : b \in BOOLEAN}
        \cup {Ident("a"), Absent}

Exprs1 ==
    Leaves
        \cup {Prefix(op, r) : op \in PrefixOperators, r \in Leaves}
        \cup {Infix(op, l, r) : op \in InfixOperators, l \in Leaves, r \in Leaves}

ShortStatements ==
    {LetStmt, ReturnStmt}
        \cup {ExprStmt(e) :
                e \in {IntLit(1), Bool(TRUE), Ident("a"),
                       Prefix("-", Bool(TRUE)), Absent}}

\* The Programs evaluate is given: no statement, one statement over every
\* input expression, or up to MaxStatements of the short statements.
IsInputProgram(p) ==
    \/ p = ProgramNode(<<>>)
    \/ p = ProgramNode(<<LetStmt>>)
    \/ p = ProgramNode(<<ReturnStmt>>)
    \/ \E e \in Exprs1 : p = ProgramNode(<<ExprStmt(e)>>)
    \/ \E op \in PrefixOperators, r \in Exprs1 :
            p = ProgramNode(<<ExprStmt(Prefix(op, r))>>)
    \/ \E op1 \in PrefixOperators, op2 \in PrefixOperators, r \in Exprs1 :
            p = ProgramNode(<<ExprStmt(Prefix(op1, Prefix(op2, r)))>>)
    \/ \E op \in InfixOperators, l \in Exprs1, r \in Leaves :
            p = ProgramNode(<<ExprStmt(Infix(op, l, r))>>)
    \/ \E op \in InfixOperators, l \in Leaves, r \in Exprs1 :
            p = ProgramNode(<<ExprStmt(Infix(op, l, r))>>)
    \/ \E n \in 2..MaxStatements : \E ss \in [1..n -> ShortStatements] :
            p = ProgramNode(ss)

-----------------------------------------------------------------------------
(* The parser's inputs: the inputs of the tests, every expression of up to  *)
(* MaxInfix infix operators over operands with or without a prefix          *)
(* operator, and every sequence of up to MaxTokens words of a vocabulary.   *)

\* 'parses the let statement'
TestLetInput ==
    <<"\n", " ", " ", " ", " ", " ", " ", " ", " ", "l", "e", "t", " ", "x",
        " ", "=", " ", "5", ";", "\n", " ", " ", " ", " ", " ", " ", " ", " ",
        "l", "e", "t", " ", "y", " ", "=", " ", "1", "0", ";", "\n", " ", " ",
        " ", " ", " ", " ", " ", " ", "l", "e", "t", " ", "f", "o", "o", "b",
        "a", "r", " ", "=", " ", "1", "0", "0", "0", "0", ";", "\n", " ", " ",
        " ", " ", " ", " ">>

\* 'parses the return statement'
TestReturnInput ==
    <<"\n", " ", " ", " ", " ", " ", " ", " ", " ", "r", "e", "t", "u", "r",
        "n", " ", "5", ";", "\n", " ", " ", " ", " ", " ", " ", " ", " ", "r",
        "e", "t", "u", "r", "n", " ", "1", "0", ";", "\n", " ", " ", " ", " ",
        " ", " ", " ", " ", "r", "e", "t", "u", "r", "n", " ", "1", "0", "0",
        "0", "0", ";", "\n", " ", " ", " ", " ", " ", " ">>

\* 'parses an input with error'
TestErrorInput ==
    <<"\n", " ", " ", " ", " ", " ", " ", " ", " ", "l", "e", "t", " ", "1",
        "2", "3", ";", "\n", " ", " ", " ", " ", " ", " ", " ", " ", "l", "e",
        "t", " ", "a", ";", "\n", " ", " ", " ", " ", " ", " ">>

\* 'parses an identifier expression', 'parses an integer literal expression',
\* 'parses prefix expressions'
TestExpressionInputs ==
    {<<"f", "o", "o", "b", "a", "r", ";">>,
     <<"1", "0", ";">>,
     <<"!", "5", ";">>,
     <<"-", "1", "5", ";">>}

\* 'parses infix expressions'
TestInfixInputs ==
    {<<"5", " ">> \o op \o <<" ", "5", ";">> :
        op \in {<<"+">>, <<"-">>, <<"*">>, <<"/">>, <<">">>, <<"<">>,
                <<"=", "=">>, <<"!", "=">>}}

\* 'parses infix expressions with operator precedence'
PrecedenceTests ==
    <<[input |-> <<"-", "a", " ", "*", " ", "b">>,
       expected |-> "((-a) * b)"],
      [input |-> <<"!", "-", "a">>,
       expected |-> "(!(-a))"],
      [input |-> <<"a", " ", "+", " ", "b", " ", "+", " ", "c">>,
       expected |-> "((a + b) + c)"],
      [input |-> <<"a", " ", "+", " ", "b", " ", "-", " ", "c">>,
       expected |-> "((a + b) - c)"],
      [input |-> <<"a", " ", "*", " ", "b", " ", "*", " ", "c">>,
       expected |-> "((a * b) * c)"],
      [input |-> <<"a", " ", "*", " ", "b", " ", "/", " ", "c">>,
       expected |-> "((a * b) / c)"],
      [input |-> <<"a", " ", "+", " ", "b", " ", "/", " ", "c">>,
       expected |-> "(a + (b / c))"],
      [input |-> <<"a", " ", "+", " ", "b", " ", "*", " ", "c", " ", "+", " ", "d", " ",
                 "/", " ", "e", " ", "-", " ", "f">>,
       expected |-> "(((a + (b * c)) + (d / e)) - f)"],
      [input |-> <<"3", " ", "+", " ", "4", ";", " ", "-", "5", " ", "*", " ", "5">>,
       expected |-> "(3 + 4)((-5) * 5)"],
      [input |-> <<"5", " ", ">", " ", "4", " ", "=", "=", " ", "3", " ", "<", " ", "4">>,
       expected |-> "((5 > 4) == (3 < 4))"],
      [input |-> <<"5", " ", "<", " ", "4", " ", "!", "=", " ", "3", " ", ">", " ", "4">>,
       expected |-> "((5 < 4) != (3 > 4))"],
      [input |-> <<"3", " ", "+", " ", "4", " ", "*", " ", "5", " ", "=", "=", " ", "3",
                 " ", "*", " ", "1", " ", "+", " ", "4", " ", "*", " ", "5">>,
       expected |-> "((3 + (4 * 5)) == ((3 * 1) + (4 * 5)))"]>>

TestInputs ==
    {TestLetInput, TestReturnInput, TestErrorInput}
        \cup TestExpressionInputs \cup TestInfixInputs
        \cup {PrecedenceTests[k].input : k \in DOMAIN PrecedenceTests}

\* The text of a sequence of words, one space between two words.
RECURSIVE Spell(_)
Spell(words) ==
    IF words = <<>> THEN <<>>
    ELSE IF Len(words) = 1 THEN words[1]
    ELSE words[1] \o <<" ">> \o Spell(Tail(words))

OperandNames == <<"a", "b", "c", "d", "e", "f", "g", "h">>
PrefixChoices == {<<>>, << <<"!">> >>, << <<"-">> >>}
InfixChoices ==
    {<<"+">>, <<"-">>, <<"*">>, <<"/">>, <<"<">>, <<">">>,
     <<"=", "=">>, <<"!", "=">>}

\* The words of the expression of n infix operators inf[1..n] whose k-th
\* operand is the k-th operand name after the prefix operator pre[k], if any.
RECURSIVE ExpressionWords(_, _, _)
ExpressionWords(n, pre, inf) ==
    IF n = 0 THEN pre[1] \o << <<OperandNames[1]>> >>
    ELSE ExpressionWords(n - 1, pre, inf)
            \o <<inf[n]>> \o pre[n + 1] \o << <<OperandNames[n + 1]>> >>

GeneratedExpressions ==
    UNION {{Spell(ExpressionWords(n, pre, inf)) :
                pre \in [1..(n + 1) -> PrefixChoices],
                inf \in [1..n -> InfixChoices]} : n \in 0..MaxInfix}

Vocabulary ==
    {<<"l", "e", "t">>, <<"r", "e", "t", "u", "r", "n">>, <<"t", "r", "u", "e">>,
     <<"a">>, <<"5">>, <<"=">>, <<";">>, <<"+">>, <<"-">>, <<"!">>,
     <<"=", "=">>, <<"@">>}

ShortInputs ==
    UNION {{Spell(ws) : ws \in [1..n -> Vocabulary]} : n \in 0..MaxTokens}

ParserInputs == TestInputs \cup GeneratedExpressions \cup ShortInputs

-----------------------------------------------------------------------------
(* One call evaluate(program), its loop taken one statement at a time.      *)

Init ==
    /\ IsInputProgram(program)
    /\ pc = "ready"
    /\ i = 0
    /\ result = JsUndefined
    /\ visited = <<>>
    /\ heap = InitialHeap
    /\ ret = JsUndefined
    /\ parser = NewParser(<<>>)
    /\ statements = <<>>
    /\ ppc = "idle"

\* evaluate on a Program node: enter evaluateStatements.
EvaluateProgram ==
    /\ pc = "ready"
    /\ program.kind = "Program"
    /\ pc' = "loop"
    /\ i' = 1
    /\ result' = JsUndefined
    /\ UNCHANGED <<program, visited, heap, ret>>
    /\ UNCHANGED pvars

\* One iteration of the loop: result = this.evaluate(statement).
EvaluateStatement ==
    /\ pc = "loop"
    /\ i <= Len(program.statements)
    /\ LET r == evaluate(program.statements[i], heap)
       IN  /\ visited' = Append(visited, i)
           /\ heap' = r.heap
           /\ IF r.val = TypeError
              THEN /\ pc' = "thrown"
                   /\ UNCHANGED <<i, result>>
              ELSE /\ pc' = "loop"
                   /\ i' = i + 1
                   /\ result' = r.val
    /\ UNCHANGED <<program, ret>>
    /\ UNCHANGED pvars

\* The loop is over: return result.
ReturnResult ==
    /\ pc = "loop"
    /\ i > Len(program.statements)
    /\ pc' = "returned"
    /\ ret' = result
    /\ UNCHANGED <<program, i, result, visited, heap>>
    /\ UNCHANGED pvars

Next == EvaluateProgram \/ EvaluateStatement \/ ReturnResult

Spec == Init /\ [][Next]_vars

-----------------------------------------------------------------------------
(* One call parseProgram(), its loop taken one statement at a time.         *)

InitParser ==
    /\ parser \in {NewParser(input) : input \in ParserInputs}
    /\ statements = <<>>
    /\ ppc = "parsing"
    /\ program = ProgramNode(<<>>)
    /\ pc = "idle"
    /\ i = 0
    /\ result = JsUndefined
    /\ visited = <<>>
    /\ heap = InitialHeap
    /\ ret = JsUndefined

\* The end of an iteration: keep the statement unless it is null, and advance.
EndIteration(r) ==
    /\ parser' = nextToken(r.p)
    /\ statements' = IF r.stmt = NoStatement THEN statements
                     ELSE Append(statements, r.stmt)
    /\ UNCHANGED ppc
    /\ UNCHANGED evars

ParseLet ==
    /\ ppc = "parsing"
    /\ parser.curToken.type = "LET"
    /\ EndIteration(parseStatement(parser))

ParseReturn ==
    /\ ppc = "parsing"
    /\ parser.curToken.type = "RETURN"
    /\ EndIteration(parseStatement(parser))

ParseExpressionStatement ==
    /\ ppc = "parsing"
    /\ parser.curToken.type \notin {"LET", "RETURN", "EOF"}
    /\ EndIteration(parseStatement(parser))

\* The current token is EOF: parseProgram returns the Program.
ParseDone ==
    /\ ppc = "parsing"
    /\ parser.curToken.type = "EOF"
    /\ ppc' = "done"
    /\ UNCHANGED <<parser, statements>>
    /\ UNCHANGED evars

NextParser == ParseLet \/ ParseReturn \/ ParseExpressionStatement \/ ParseDone

SpecParser == InitParser /\ [][NextParser]_vars

-----------------------------------------------------------------------------
(* Properties of the Evaluator.                                             *)

\* The call returned (it did not raise).
Returned == pc = "returned"

\* The program is the single expression statement `e;`.
SingleExpression ==
    /\ Len(program.statements) = 1
    /\ program.statements[1].kind = "Expression"

\* The expression of that single statement.
TheExpression == program.statements[1].expression

IsObject(v) == v.tag = "object"
IsAbsent(v) == v.tag \in {"null", "undefined"}

\* C1: every Boolean object evaluate returns is one of the two shared
\* singletons TRUE and FALSE (the same object, not an equal one).
C1_BooleanIsSingleton ==
    (Returned /\ IsObject(ret) /\ ret.type = "BOOLEAN")
        => (Same(ret, TRUE_) \/ Same(ret, FALSE_))

\* C2: if e evaluates to a value v, then !e evaluates to TRUE when v is the
\* boolean false or Null, and to FALSE for every other v.
C2_BangNegatesValue ==
    (Returned /\ SingleExpression /\ TheExpression.kind = "Prefix"
        /\ TheExpression.operator = "!")
        => LET v == evaluate(TheExpression.right, InitialHeap).val
           IN  IsObject(v)
                 => ret = IF \/ (v.type = "BOOLEAN" /\ ~v.value.b)
                            \/ v.type = "NULL"
                          THEN TRUE_ ELSE FALSE_

\* C3: every Null object evaluate returns is the shared NULL singleton.
C3_NullIsSingleton ==
    (Returned /\ IsObject(ret) /\ ret.type = "NULL") => Same(ret, NULL)

\* C4: if e evaluates to an Integer n, -e evaluates to a newly allocated
\* Integer of value -n; if e evaluates to a Boolean or a Null, -e evaluates
\* to null (the absent case), never to an object.
C4_MinusOperator ==
    (Returned /\ SingleExpression /\ TheExpression.kind = "Prefix"
        /\ TheExpression.operator = "-")
        => LET r == evaluate(TheExpression.right, InitialHeap)
           IN  IsObject(r.val)
                 => IF r.val.type = "INTEGER"
                    THEN /\ IsObject(ret)
                         /\ ret.type = "INTEGER"
                         /\ ret.value = JsNeg(r.val.value)
                         /\ ret.addr > r.heap
                    ELSE ret = JsNull

\* C4's case: -e returned null for an e that evaluates to a Boolean.
C4_Witness ==
    /\ Returned /\ SingleExpression
    /\ TheExpression.kind = "Prefix" /\ TheExpression.operator = "-"
    /\ LET r == evaluate(TheExpression.right, InitialHeap)
       IN  IsObject(r.val) /\ r.val.type = "BOOLEAN"
    /\ ret = JsNull

\* The heap as it is when statement k of the program is evaluated.
HeapBefore(k) ==
    evaluateStatements(SubSeq(program.statements, 1, k - 1), 1,
                       JsUndefined, InitialHeap).heap

\* C5: evaluate on a Program evaluates every statement once, in source
\* order, and returns the result of the last one (undefined for no statement).
C5_ProgramResult ==
    (pc \in {"returned", "thrown"})
        => LET n == Len(program.statements)
           IN  /\ Returned
               /\ visited = [k \in 1..n |-> k]
               /\ ret = IF n = 0 THEN JsUndefined
                         ELSE evaluate(program.statements[n], HeapBefore(n)).val

\* C6: evaluate never raises, whatever Program it is given.
C6_NeverRaises == pc # "thrown"

\* The call ended: it returned or it raised.
Ended == pc \in {"returned", "thrown"}

\* C9: if an operand of a Prefix or Infix expression evaluates to the absent
\* case (null or undefined), the expression evaluates to the absent case and
\* no object is allocated for it; if all operands evaluate to values, the
\* result is that of the operator applied to them.
C9_AbsencePropagates ==
    (Ended /\ SingleExpression)
        => /\ TheExpression.kind = "Prefix"
                => LET r == evaluate(TheExpression.right, InitialHeap)
                   IN  /\ IsAbsent(r.val)
                            => Returned /\ IsAbsent(ret) /\ heap = r.heap
                       /\ IsObject(r.val)
                            => /\ Returned
                               /\ ret = evaluatePrefixExpression(
                                            TheExpression.operator, r.val, r.heap).val
           /\ (TheExpression.kind = "Infix"
                 /\ evaluate(TheExpression.left, InitialHeap).val # TypeError)
                => LET l == evaluate(TheExpression.left, InitialHeap)
                       r == evaluate(TheExpression.right, l.heap)
                   IN  /\ (IsAbsent(l.val) \/ IsAbsent(r.val))
                            => Returned /\ IsAbsent(ret) /\ heap = r.heap
                       /\ (IsObject(l.val) /\ IsObject(r.val))
                            => /\ Returned
                               /\ ret = evaluateInfixExpression(
                                            TheExpression.operator, l.val, r.val, r.heap).val

\* C10: every Integer object evaluate returns carries an integral value.
C10_IntegerIsIntegral ==
    (Returned /\ IsObject(ret) /\ ret.type = "INTEGER") => IsIntegral(ret.value)

-----------------------------------------------------------------------------
(* Properties of the Parser.                                                *)

\* parseProgram returned.
Parsed == ppc = "done"

\* The tokens of the parser's input.
InputTokens == Tokenize(parser.input, 1)

AtomTypes == {"IDENT", "INT"}
PrefixOperatorTypes == {"!", "-"}
InfixOperatorTypes == {"+", "-", "*", "/", "<", ">", "==", "!="}

\* The tokens from the k-th on are operands (an identifier or an integer
\* after any number of prefix operators) separated by infix operators, with a
\* semicolon between two such expressions and possibly after the last.
\* `operand` says that an operand is due.
RECURSIVE WellFormedFrom(_, _, _)
WellFormedFrom(ts, k, operand) ==
    IF k > Len(ts) THEN ~operand
    ELSE IF operand
    THEN \/ ts[k].type \in PrefixOperatorTypes /\ WellFormedFrom(ts, k + 1, TRUE)
         \/ ts[k].type \in AtomTypes /\ WellFormedFrom(ts, k + 1, FALSE)
    ELSE \/ ts[k].type \in InfixOperatorTypes /\ WellFormedFrom(ts, k + 1, TRUE)
         \/ ts[k].type = ";" /\ (k = Len(ts) \/ WellFormedFrom(ts, k + 1, TRUE))

\* The input is one or more expressions over identifiers, integers, prefix
\* and infix operators.
ExpressionInput == InputTokens # <<>> /\ WellFormedFrom(InputTokens, 1, TRUE)

\* How tightly an infix operator binds: * / before + - before < > before == !=.
Tightness(type) ==
    CASE type \in {"*", "/"} -> 3
      [] type \in {"+", "-"} -> 2
      [] type \in {"<", ">"} -> 1
      [] type \in {"==", "!="} -> 0

\* The positions of the infix operators of an expression's tokens: an operator
\* that follows an operand.
InfixPositions(ts) ==
    {k \in 2..Len(ts) :
        ts[k].type \in InfixOperatorTypes /\ ts[k - 1].type \in AtomTypes}

\* The fully parenthesized rendering of an expression's tokens: it is split
\* at the last of its loosest infix operators; without an infix operator, a
\* prefix operator applies to all that follows it.
RECURSIVE Parenthesized(_)
Parenthesized(ts) ==
    LET ops == InfixPositions(ts)
    IN  IF ops # {}
        THEN LET k == CHOOSE x \in ops : \A y \in ops :
                          \/ Tightness(ts[x].type) < Tightness(ts[y].type)
                          \/ Tightness(ts[x].type) = Tightness(ts[y].type) /\ y <= x
             IN  "(" \o Parenthesized(SubSeq(ts, 1, k - 1)) \o " "
                     \o Join(ts[k].literal) \o " "
                     \o Parenthesized(SubSeq(ts, k + 1, Len(ts))) \o ")"
        ELSE IF Len(ts) = 1 THEN Join(ts[1].literal)
        ELSE "(" \o Join(ts[1].literal) \o Parenthesized(Tail(ts)) \o ")"

\* The renderings of the expressions of a token sequence, one after the other.
RECURSIVE ParenthesizedAll(_)
ParenthesizedAll(ts) ==
    IF ts = <<>> THEN ""
    ELSE IF \E k \in 1..Len(ts) : ts[k].type = ";"
    THEN LET k == CHOOSE x \in 1..Len(ts) :
                      ts[x].type = ";" /\ \A y \in 1..(x - 1) : ts[y].type # ";"
         IN  Parenthesized(SubSeq(ts, 1, k - 1))
                 \o ParenthesizedAll(SubSeq(ts, k + 1, Len(ts)))
    ELSE Parenthesized(ts)

\* C7: for an error-free input of expressions over identifiers, integers,
\* prefix and infix operators, the Program renders fully parenthesized, prefix
\* operators binding tighter than * /, these tighter than + -, these tighter
\* than < >, these tighter than == !=, equal operators grouping left to right;
\* and each input of the precedence test renders as the test expects.
C7_PrecedenceRendering ==
    Parsed =>
        /\ (parser.errors = <<>> /\ ExpressionInput)
              => string(ProgramNode(statements)) = ParenthesizedAll(InputTokens)
        /\ \A t \in DOMAIN PrecedenceTests :
              parser.input = PrecedenceTests[t].input
                  => /\ parser.errors = <<>>
                     /\ string(ProgramNode(statements)) = PrecedenceTests[t].expected

\* C7's case: `a + b * c + d / e - f` is parsed and rendered.
C7_Witness ==
    /\ Parsed
    /\ parser.input = PrecedenceTests[8].input
    /\ ExpressionInput
    /\ string(ProgramNode(statements)) = "(((a + (b * c)) + (d / e)) - f)"

\* The errors of the input `let 123; let a;`.
ExpectedErrors ==
    <<"expected next token to be IDENT, got INT instead",
      "expected next token to be =, got ; instead",
      "no prefix parse function for ; found">>

\* C8: a let statement whose next token is not the expected one records one
\* error and leaves both lookahead tokens where they are; and parsing
\* `let 123; let a;` ends with exactly the three expected errors, in order.
C8_ErrorsCascade ==
    /\ (ppc = "parsing" /\ parser.curToken.type = "LET"
            /\ parser.peekToken.type # "IDENT")
          => LET r == parseLetStatement(parser)
             IN  /\ r.stmt = NoStatement
                 /\ Len(r.p.errors) = Len(parser.errors) + 1
                 /\ r.p.curToken = parser.curToken
                 /\ r.p.peekToken = parser.peekToken
    /\ (Parsed /\ parser.input = TestErrorInput) => parser.errors = ExpectedErrors

\* C8's case: `let 123; let a;` is parsed, with errors.
C8_Witness ==
    /\ Parsed
    /\ parser.input = TestErrorInput
    /\ Len(parser.errors) = 3
====
